---- MODULE Spec2Model ----
(***************************************************************************)
(* Model of scripts/generate-brand-assets.py: the size table, the three    *)
(* generating operations (render_png, render_ico, write_favicon_svg) and   *)
(* the orchestration in main.  Text is modelled character by character     *)
(* (a document is a sequence of one-character strings) and the regular     *)
(* expressions of write_favicon_svg are evaluated on those characters.     *)
(***************************************************************************)
EXTENDS Integers, Sequences, FiniteSets, TLC

VARIABLES
    avatarExists,   \* avatar_svg.exists()
    avatarDoc,      \* text of the avatar SVG (sequence of characters)
    extLight,       \* extended_light.exists()
    extDark,        \* extended_dark.exists()
    hasCairo,       \* "import cairosvg" succeeds
    hasPillow,      \* "from PIL import Image" succeeds
    dirExists,      \* the output directory (parent of every destination) exists
    disk,           \* file name -> content of the file in the output directory
    pc,             \* position of the program
    step,           \* index of the next (prefix, size) pair of the render loop
    skip,           \* args.skip_favicon_svg of the current run
    generated,      \* the list "generated" of main
    exitCode,       \* exit status of the last run (-1: none yet)
    err,            \* exception that ended the last call or run ("none" if none)
    warned,         \* the extended-SVG warning was printed by the current run
    reported,       \* count printed by "Generated N files" (-1: not printed)
    runs,           \* number of runs of main started so far
    call            \* the operation called directly: name, destination, size

vars == <<avatarExists, avatarDoc, extLight, extDark, hasCairo, hasPillow,
          dirExists, disk, pc, step, skip, generated, exitCode, err, warned,
          reported, runs, call>>

env == <<avatarExists, avatarDoc, extLight, extDark, hasCairo, hasPillow>>

(***************************************************************************)
(* Bounds                                                                  *)
(***************************************************************************)
MaxRuns == 2
MaxChunks == 4

(***************************************************************************)
(* Program constants                                                       *)
(***************************************************************************)
DEFAULT_SPECS ==
    << [prefix |-> "android-icon", sizes |-> <<36, 48, 72, 96, 144, 192>>],
       [prefix |-> "apple-icon",   sizes |-> <<57, 60, 72, 76, 114, 120, 144, 152, 180>>],
       [prefix |-> "favicon",      sizes |-> <<16, 32, 96>>],
       [prefix |-> "ms-icon",      sizes |-> <<70, 144, 150>>] >>

FAVICON_ICO_SIZES == <<16, 32, 48>>
FAVICON_SVG_SIZE == 48

AvatarPath == "logo_thumbnail.svg"
ExtendedLightPath == "logo.svg"
ExtendedDarkPath == "logo_dark.svg"
IcoName == "favicon.ico"
SvgName == "favicon.svg"

(***************************************************************************)
(* String formatting: "{size}" in an f-string is the decimal numeral.      *)
(***************************************************************************)
DigitChar == <<"0", "1", "2", "3", "4", "5", "6", "7", "8", "9">>

RECURSIVE DigitsOf(_)
DigitsOf(n) ==
    IF n < 10 THEN <<DigitChar[n + 1]>>
    ELSE Append(DigitsOf(n \div 10), DigitChar[(n % 10) + 1])

RECURSIVE Join(_)
Join(cs) == IF cs = <<>> THEN "" ELSE Head(cs) \o Join(Tail(cs))

FormatInt(n) == Join(DigitsOf(n))

FileNameDropPrefix(prefix, size) ==
    FormatInt(size) \o "x" \o FormatInt(size) \o ".png"

FileNameOneSize(prefix, size) ==
    prefix \o "-" \o FormatInt(size) \o ".png"

FileName(prefix, size) ==
    prefix \o "-" \o FormatInt(size) \o "x" \o FormatInt(size) \o ".png"

(***************************************************************************)
(* The render loop visits the table entries in order, and the sizes of an  *)
(* entry in order: Pairs is that flat order.                               *)
(***************************************************************************)
RECURSIVE PairsFrom(_)
PairsFrom(e) ==
    IF e > Len(DEFAULT_SPECS) THEN <<>>
    ELSE [i \in 1..Len(DEFAULT_SPECS[e].sizes) |->
             [prefix |-> DEFAULT_SPECS[e].prefix, size |-> DEFAULT_SPECS[e].sizes[i]]]
         \o PairsFrom(e + 1)

Pairs == PairsFrom(1)

PngNames == {FileName(Pairs[i].prefix, Pairs[i].size) : i \in 1..Len(Pairs)}

Range(s) == {s[i] : i \in 1..Len(s)}

(***************************************************************************)
(* File contents                                                           *)
(***************************************************************************)
Absent == [kind |-> "absent", src |-> "", sizes |-> <<>>, text |-> <<>>]

PngContentNoHeight(svg, size) ==
    [kind |-> "png", src |-> svg, sizes |-> <<size, 0>>, text |-> <<>>]

PngContent(svg, size) ==
    [kind |-> "png", src |-> svg, sizes |-> <<size, size>>, text |-> <<>>]

IcoContent(svg) ==
    [kind |-> "ico", src |-> svg, sizes |-> FAVICON_ICO_SIZES, text |-> <<>>]

SvgContent(t) ==
    [kind |-> "svg", src |-> "", sizes |-> <<>>, text |-> t]

(***************************************************************************)
(* Regular expressions of write_favicon_svg.  Every pattern of the source  *)
(* has the shape  literal [^c]* c .  The patterns are raw strings, so the  *)
(* two characters \\ of the pattern text match ONE literal backslash and   *)
(* the following b matches the letter b:                                   *)
(*     r"<svg\\b[^>]*>"        literal  <svg\b      then [^>]* >           *)
(*     r'\\bwidth="[^"]*"'     literal  \bwidth="   then [^"]* "           *)
(*     r'\\bheight="[^"]*"'    literal  \bheight="  then [^"]* "           *)
(***************************************************************************)
UpperChars == <<"A","B","C","D","E","F","G","H","I","J","K","L","M",
                "N","O","P","Q","R","S","T","U","V","W","X","Y","Z">>
LowerChars == <<"a","b","c","d","e","f","g","h","i","j","k","l","m",
                "n","o","p","q","r","s","t","u","v","w","x","y","z">>

Fold(c) ==
    IF \E k \in 1..26 : UpperChars[k] = c
    THEN LowerChars[CHOOSE k \in 1..26 : UpperChars[k] = c]
    ELSE c

CharEq(a, b, ignoreCase) == IF ignoreCase THEN Fold(a) = Fold(b) ELSE a = b

SvgTagLit == <<"<", "s", "v", "g", "\\", "b">>
WidthLit  == <<"\\", "b", "w", "i", "d", "t", "h", "=", "\"">>
HeightLit == <<"\\", "b", "h", "e", "i", "g", "h", "t", "=", "\"">>
WidthName  == <<"w", "i", "d", "t", "h">>
HeightName == <<"h", "e", "i", "g", "h", "t">>

IsPrefixAt(t, i, lit, ignoreCase) ==
    /\ i + Len(lit) - 1 <= Len(t)
    /\ \A k \in 1..Len(lit) : CharEq(t[i + k - 1], lit[k], ignoreCase)

RECURSIVE IndexFrom(_, _, _)
IndexFrom(t, c, j) ==
    IF j > Len(t) THEN 0
    ELSE IF t[j] = c THEN j
    ELSE IndexFrom(t, c, j + 1)

\* Index of the last character of the match of  lit [^close]* close  that
\* starts at i, or 0 when there is no match starting at i.
MatchEnd(t, i, lit, close, ignoreCase) ==
    IF IsPrefixAt(t, i, lit, ignoreCase)
    THEN IndexFrom(t, close, i + Len(lit))
    ELSE 0

\* re.search: the leftmost match at or after i, as <<start, end>>; <<0, 0>>
\* when there is none.
RECURSIVE SearchFrom(_, _, _, _, _)
SearchFrom(t, i, lit, close, ignoreCase) ==
    IF i > Len(t) THEN <<0, 0>>
    ELSE LET e == MatchEnd(t, i, lit, close, ignoreCase)
         IN  IF e > 0 THEN <<i, e>>
             ELSE SearchFrom(t, i + 1, lit, close, ignoreCase)

ReSearch(t, lit, close, ignoreCase) == SearchFrom(t, 1, lit, close, ignoreCase)

\* re.sub: every non-overlapping match, left to right, replaced by repl.
RECURSIVE SubFrom(_, _, _, _, _)
SubFrom(t, i, lit, close, repl) ==
    IF i > Len(t) THEN <<>>
    ELSE LET e == MatchEnd(t, i, lit, close, FALSE)
         IN  IF e > 0 THEN repl \o SubFrom(t, e + 1, lit, close, repl)
             ELSE <<t[i]>> \o SubFrom(t, i + 1, lit, close, repl)

ReSub(t, lit, close, repl) == SubFrom(t, 1, lit, close, repl)

EndsWith(t, suffix) ==
    /\ Len(suffix) <= Len(t)
    /\ SubSeq(t, Len(t) - Len(suffix) + 1, Len(t)) = suffix

\* f'width="{size}"' and f'height="{size}"'
AttrText(name, size) == name \o <<"=", "\"">> \o DigitsOf(size) \o <<"\"">>

\* One of the two if/else blocks of write_favicon_svg.
SetAttr(updated, lit, name, size) ==
    IF ReSearch(updated, lit, "\"", FALSE)[1] > 0
    THEN ReSub(updated, lit, "\"", AttrText(name, size))
    ELSE IF EndsWith(updated, <<"/", ">">>)
         THEN SubSeq(updated, 1, Len(updated) - 2)
                  \o <<" ">> \o AttrText(name, size) \o <<"/", ">">>
         ELSE SubSeq(updated, 1, Len(updated) - 1)
                  \o <<" ">> \o AttrText(name, size) \o <<">">>

RewriteTag(tag, size) ==
    SetAttr(SetAttr(tag, WidthLit, WidthName, size), HeightLit, HeightName, size)

SvgTagMatch(content) == ReSearch(content, SvgTagLit, ">", TRUE)

\* The text write_favicon_svg writes when the root-tag pattern matches.
RewrittenText(content, size) ==
    LET m == SvgTagMatch(content)
    IN  SubSeq(content, 1, m[1] - 1)
            \o RewriteTag(SubSeq(content, m[1], m[2]), size)
            \o SubSeq(content, m[2] + 1, Len(content))

(***************************************************************************)
(* Source documents: every concatenation of at most MaxChunks pieces of    *)
(* SVG text.  The pieces give documents with and without a root tag, with  *)
(* and without width/height, with > and /> closings, in upper and lower    *)
(* case, and with the literal text \b that the patterns of the source ask  *)
(* for.                                                                    *)
(***************************************************************************)
\* <svg
ChSvg ==
    <<"<", "s", "v", "g">>

\* <SVG\B
ChSvgLit ==
    <<"<", "S", "V", "G", "\\", "B">>

\*  viewBox="0 0 100 100"
ChViewBox ==
    <<" ", "v", "i", "e", "w", "B", "o", "x", "=", "\"", "0", " ", "0", " ", "1", "0", "0", " ", "1", "0", "0", "\"">>

\*  width="200"
ChWidth ==
    <<" ", "w", "i", "d", "t", "h", "=", "\"", "2", "0", "0", "\"">>

\*  height="200"
ChHeight ==
    <<" ", "h", "e", "i", "g", "h", "t", "=", "\"", "2", "0", "0", "\"">>

\* \bwidth="9"
ChWidthLit ==
    <<"\\", "b", "w", "i", "d", "t", "h", "=", "\"", "9", "\"">>

\* \bheight="9"
ChHeightLit ==
    <<"\\", "b", "h", "e", "i", "g", "h", "t", "=", "\"", "9", "\"">>

\* >
ChClose ==
    <<">">>

\* />
ChSelfClose ==
    <<"/", ">">>

Chunks == {ChSvg, ChSvgLit, ChViewBox, ChWidth, ChHeight, ChWidthLit, ChHeightLit, ChClose, ChSelfClose}

RECURSIVE DocsOfLen(_)
DocsOfLen(n) ==
    IF n = 0 THEN {<<>>}
    ELSE {d \o c : d \in DocsOfLen(n - 1), c \in Chunks}

\* <svg viewBox="0 0 100 100">
DocViewBox == ChSvg \o ChViewBox \o ChClose
\* <svg width="200" height="200">
DocSized == ChSvg \o ChWidth \o ChHeight \o ChClose
\* <SVG\B\bwidth="9"/>
DocLit == ChSvgLit \o ChWidthLit \o ChSelfClose

\* The avatar documents of the runs of main.
MainDocs == {DocViewBox, DocSized, DocLit}

(***************************************************************************)
(* The file system seen by the program                                     *)
(***************************************************************************)
Prefixes == {DEFAULT_SPECS[e].prefix : e \in 1..Len(DEFAULT_SPECS)}
TableSizes == UNION {Range(DEFAULT_SPECS[e].sizes) : e \in 1..Len(DEFAULT_SPECS)}

\* The names a file of the output directory may have: any prefix with any
\* size of the table, and the two favicon files.
AllNames ==
    {FileName(p, n) : p \in Prefixes, n \in TableSizes} \cup {IcoName, SvgName}

Exists(path) ==
    CASE path = AvatarPath -> avatarExists
      [] path = ExtendedLightPath -> extLight
      [] path = ExtendedDarkPath -> extDark
      [] OTHER -> FALSE

\* svg_path.read_text(): only the avatar is ever read.
ReadText(path) == avatarDoc

(***************************************************************************)
(* The generating operations.  Each yields the directory flag, the disk    *)
(* and the exception after the call; "fails" says that the conversion (or  *)
(* the read) raises.  A conversion of a missing source raises too.  A      *)
(* conversion that raises is taken to raise before the destination is      *)
(* opened, so it leaves no file behind.                                    *)
(***************************************************************************)
\* mkdir(parents=True, exist_ok=True) comes first, then svg2png writes.
RenderPng(svg, name, size, fails) ==
    IF fails \/ ~Exists(svg)
    THEN [dir |-> TRUE, disk |-> disk, err |-> "RenderFailure"]
    ELSE [dir |-> TRUE,
          disk |-> [disk EXCEPT ![name] = PngContent(svg, size)],
          err |-> "none"]

\* The three conversions come first, then mkdir, then the save.
RenderIco(svg, name, fails) ==
    IF fails \/ ~Exists(svg)
    THEN [dir |-> dirExists, disk |-> disk, err |-> "RenderFailure"]
    ELSE [dir |-> TRUE,
          disk |-> [disk EXCEPT ![name] = IcoContent(svg)],
          err |-> "none"]

\* No match: shutil.copyfile, which creates no directory and raises
\* FileNotFoundError when the parent of the destination is missing.
\* Match: mkdir, then write_text of the spliced document.
WriteFaviconSvg(svg, name, size, fails) ==
    IF fails \/ ~Exists(svg)
    THEN [dir |-> dirExists, disk |-> disk, err |-> "ReadFailure"]
    ELSE LET content == ReadText(svg)
         IN  IF SvgTagMatch(content)[1] = 0
             THEN IF dirExists
                  THEN [dir |-> dirExists,
                        disk |-> [disk EXCEPT ![name] = SvgContent(content)],
                        err |-> "none"]
                  ELSE [dir |-> dirExists, disk |-> disk,
                        err |-> "FileNotFoundError"]
             ELSE [dir |-> TRUE,
                   disk |-> [disk EXCEPT
                                ![name] = SvgContent(RewrittenText(content, size))],
                   err |-> "none"]

(***************************************************************************)
(* main                                                                    *)
(***************************************************************************)
MissingExtendedLightOnly ==
    {path \in {ExtendedLightPath} : ~Exists(path)}

MissingExtended ==
    {path \in {ExtendedLightPath, ExtendedDarkPath} : ~Exists(path)}

PackagesMissingCairoOnly == ~hasCairo

\* require_packages calls sys.exit(1) when either import fails.
PackagesMissing == ~hasCairo \/ ~hasPillow

WritesFaviconSvgAlways(skipFlag) == TRUE

\* "if not args.skip_favicon_svg"
WritesFaviconSvg(skipFlag) == ~skipFlag

PropagateSwallowed(failed, next) == next

\* No try/except in main: an exception of a step leaves main and the
\* interpreter at once; otherwise the program goes on to the next position.
Propagate(failed, next) == IF failed THEN "exited" ELSE next

NoCall == [op |-> "none", dest |-> "", size |-> 0]

Init ==
    /\ avatarExists \in BOOLEAN
    /\ avatarDoc \in MainDocs
    /\ extLight \in BOOLEAN
    /\ extDark \in BOOLEAN
    /\ hasCairo \in BOOLEAN
    /\ hasPillow \in BOOLEAN
    /\ dirExists \in BOOLEAN
    /\ disk = [n \in AllNames |-> Absent]
    /\ pc = "idle"
    /\ step = 1
    /\ skip = FALSE
    /\ generated = <<>>
    /\ exitCode = -1
    /\ err = "none"
    /\ warned = FALSE
    /\ reported = -1
    /\ runs = 0
    /\ call = NoCall

\* Lines 135-164: arguments, the avatar check, the warning, the packages.
Start ==
    /\ pc \in {"idle", "exited"}
    /\ runs < MaxRuns
    /\ \E s \in BOOLEAN : skip' = s
    /\ runs' = runs + 1
    /\ generated' = <<>>
    /\ reported' = -1
    /\ err' = "none"
    /\ step' = 1
    /\ IF ~Exists(AvatarPath)
       THEN /\ warned' = FALSE
            /\ pc' = "exited"
            /\ exitCode' = 1
       ELSE /\ warned' = (MissingExtended # {})
            /\ IF PackagesMissing
               THEN pc' = "exited" /\ exitCode' = 1
               ELSE pc' = "png" /\ exitCode' = -1
    /\ UNCHANGED <<env, dirExists, disk, call>>

\* Lines 166-170: one iteration of the render loop.
StepPng ==
    /\ pc = "png"
    /\ \E fails \in BOOLEAN :
          LET p == Pairs[step]
              filename == FileName(p.prefix, p.size)
              r == RenderPng(AvatarPath, filename, p.size, fails)
              failed == r.err # "none"
              next == IF step = Len(Pairs) THEN "ico" ELSE "png"
          IN  /\ dirExists' = r.dir
              /\ disk' = r.disk
              /\ pc' = Propagate(failed, next)
              /\ err' = IF failed THEN r.err ELSE err
              /\ exitCode' = IF pc' = "exited" THEN 1 ELSE -1
              /\ generated' = IF failed THEN generated
                              ELSE Append(generated, filename)
              /\ step' = IF pc' = "exited" THEN step ELSE step + 1
    /\ UNCHANGED <<env, skip, warned, reported, runs, call>>

\* Lines 172-173.
StepIco ==
    /\ pc = "ico"
    /\ \E fails \in BOOLEAN :
          LET r == RenderIco(AvatarPath, IcoName, fails)
              failed == r.err # "none"
          IN  /\ dirExists' = r.dir
              /\ disk' = r.disk
              /\ pc' = Propagate(failed, "svg")
              /\ err' = IF failed THEN r.err ELSE err
              /\ exitCode' = IF pc' = "exited" THEN 1 ELSE -1
              /\ generated' = IF failed THEN generated
                              ELSE Append(generated, IcoName)
    /\ UNCHANGED <<env, step, skip, warned, reported, runs, call>>

\* Lines 175-181 when favicon.svg is written.
StepSvg ==
    /\ pc = "svg"
    /\ WritesFaviconSvg(skip)
    /\ \E fails \in BOOLEAN :
          LET r == WriteFaviconSvg(AvatarPath, SvgName, FAVICON_SVG_SIZE, fails)
              failed == r.err # "none"
          IN  /\ dirExists' = r.dir
              /\ disk' = r.disk
              /\ pc' = "exited"
              /\ err' = IF failed THEN r.err ELSE err
              /\ exitCode' = IF failed THEN 1 ELSE 0
              /\ generated' = IF failed THEN generated
                              ELSE Append(generated, SvgName)
              /\ reported' = IF failed THEN reported ELSE Len(generated')
    /\ UNCHANGED <<env, step, skip, warned, runs, call>>

\* Lines 175-181 when --skip-favicon-svg is given.
StepSkipSvg ==
    /\ pc = "svg"
    /\ ~WritesFaviconSvg(skip)
    /\ pc' = "exited"
    /\ exitCode' = 0
    /\ reported' = Len(generated)
    /\ UNCHANGED <<env, dirExists, disk, step, skip, generated, err, warned,
                   runs, call>>

Next == Start \/ StepPng \/ StepIco \/ StepSvg \/ StepSkipSvg

Spec == Init /\ [][Next]_vars

(***************************************************************************)
(* The three operations called directly, once, on any source document and  *)
(* with or without the parent directory of the destination.                *)
(***************************************************************************)
OpSizes == {FAVICON_SVG_SIZE, 7}
OpPairs == {1, Len(Pairs)}

InitOps ==
    /\ avatarExists = TRUE
    /\ avatarDoc \in UNION {DocsOfLen(n) : n \in 0..MaxChunks}
    /\ extLight = TRUE
    /\ extDark = TRUE
    /\ hasCairo = TRUE
    /\ hasPillow = TRUE
    /\ dirExists \in BOOLEAN
    /\ disk = [n \in AllNames |-> Absent]
    /\ pc = "idle"
    /\ step = 1
    /\ skip = FALSE
    /\ generated = <<>>
    /\ exitCode = -1
    /\ err = "none"
    /\ warned = FALSE
    /\ reported = -1
    /\ runs = 0
    /\ call = NoCall

Returns(r, c) ==
    /\ dirExists' = r.dir
    /\ disk' = r.disk
    /\ err' = r.err
    /\ pc' = IF r.err = "none" THEN "returned" ELSE "raised"
    /\ call' = c
    /\ UNCHANGED <<env, step, skip, generated, exitCode, warned, reported, runs>>

CallRenderPng ==
    /\ pc = "idle"
    /\ \E i \in OpPairs, fails \in BOOLEAN :
          LET name == FileName(Pairs[i].prefix, Pairs[i].size)
          IN  Returns(RenderPng(AvatarPath, name, Pairs[i].size, fails),
                      [op |-> "render_png", dest |-> name, size |-> Pairs[i].size])

CallRenderIco ==
    /\ pc = "idle"
    /\ \E fails \in BOOLEAN :
          Returns(RenderIco(AvatarPath, IcoName, fails),
                  [op |-> "render_ico", dest |-> IcoName, size |-> 0])

CallWriteFaviconSvg ==
    /\ pc = "idle"
    /\ \E size \in OpSizes, fails \in BOOLEAN :
          Returns(WriteFaviconSvg(AvatarPath, SvgName, size, fails),
                  [op |-> "write_favicon_svg", dest |-> SvgName, size |-> size])

NextOps == CallRenderPng \/ CallRenderIco \/ CallWriteFaviconSvg

SpecOps == InitOps /\ [][NextOps]_vars

(***************************************************************************)
(* Notions the properties are stated with                                  *)
(***************************************************************************)
Present == {n \in DOMAIN disk : disk[n] # Absent}

\* The fixed order of the steps of main, as file names.
StepOrder ==
    [i \in 1..Len(Pairs) |-> FileName(Pairs[i].prefix, Pairs[i].size)]
        \o <<IcoName, SvgName>>

PrefixSet(k) == {StepOrder[i] : i \in 1..k}

TablePngNames ==
    { "android-icon-36x36.png", "android-icon-48x48.png", "android-icon-72x72.png",
      "android-icon-96x96.png", "android-icon-144x144.png", "android-icon-192x192.png",
      "apple-icon-57x57.png", "apple-icon-60x60.png", "apple-icon-72x72.png",
      "apple-icon-76x76.png", "apple-icon-114x114.png", "apple-icon-120x120.png",
      "apple-icon-144x144.png", "apple-icon-152x152.png", "apple-icon-180x180.png",
      "favicon-16x16.png", "favicon-32x32.png", "favicon-96x96.png",
      "ms-icon-70x70.png", "ms-icon-144x144.png", "ms-icon-150x150.png" }

Succeeded == pc = "exited" /\ exitCode = 0

\* The PNGs of the table and favicon.ico are on disk, rendered from the avatar.
RasterOutputsOn(d) ==
    /\ \A i \in 1..Len(Pairs) :
          d[FileName(Pairs[i].prefix, Pairs[i].size)]
              = PngContent(AvatarPath, Pairs[i].size)
    /\ d[IcoName] = IcoContent(AvatarPath)

IsWordChar(c) ==
    \/ \E k \in 1..26 : c = UpperChars[k] \/ c = LowerChars[k]
    \/ \E k \in 1..10 : c = DigitChar[k]
    \/ c = "_"

\* The first root <svg ...> opening tag of a document, as <<start, end>>:
\* "<svg" in any case, a word boundary, then everything up to the first ">".
RECURSIVE RootTagFrom(_, _)
RootTagFrom(t, i) ==
    IF i + 4 > Len(t) THEN <<0, 0>>
    ELSE IF /\ IsPrefixAt(t, i, <<"<", "s", "v", "g">>, TRUE)
            /\ ~IsWordChar(t[i + 4])
            /\ IndexFrom(t, ">", i + 4) > 0
         THEN <<i, IndexFrom(t, ">", i + 4)>>
         ELSE RootTagFrom(t, i + 1)

RootTag(t) == RootTagFrom(t, 1)

\* The tag declares name="size" as an attribute of its own.
Declares(tag, name, size) ==
    \E j \in 2..Len(tag) :
        /\ IsPrefixAt(tag, j, AttrText(name, size), FALSE)
        /\ ~IsWordChar(tag[j - 1])

RootTagDeclares(t, size) ==
    LET m == RootTag(t)
        tag == SubSeq(t, m[1], m[2])
    IN  /\ m[1] > 0
        /\ Declares(tag, WidthName, size)
        /\ Declares(tag, HeightName, size)

FaviconSvgReturned == pc = "returned" /\ call.op = "write_favicon_svg"

(***************************************************************************)
(* Properties                                                              *)
(***************************************************************************)

\* C1: after a run of main without --skip-favicon-svg that exits 0, the root
\* <svg> tag of favicon.svg declares width="48" and height="48", whatever
\* the avatar declared.
C1_FaviconSvgDeclares48 ==
    (Succeeded /\ ~skip) =>
        /\ disk[SvgName].kind = "svg"
        /\ RootTagDeclares(disk[SvgName].text, FAVICON_SVG_SIZE)

\* C2: write_favicon_svg rewrites the first root <svg ...> tag so that width
\* and height are size; a present attribute gets the value, an absent one is
\* appended before the closing, width before height:
\*   <svg viewBox="0 0 100 100">     becomes <svg viewBox="0 0 100 100" width="S" height="S">
\*   <svg width="200" height="200">  becomes <svg width="S" height="S">
C2_RewritesRootTag ==
    FaviconSvgReturned =>
        LET out == disk[SvgName].text
            w == <<" ">> \o AttrText(WidthName, call.size)
            h == <<" ">> \o AttrText(HeightName, call.size)
        IN  /\ RootTag(avatarDoc)[1] > 0 => RootTagDeclares(out, call.size)
            /\ avatarDoc = DocViewBox => out = ChSvg \o ChViewBox \o w \o h \o ChClose
            /\ avatarDoc = DocSized => out = ChSvg \o w \o h \o ChClose

\* C3: when the avatar SVG is missing or cairosvg or pillow is unavailable,
\* every run ends at once with exit status 1 and changes neither a file nor
\* the directory of the output location.
C3_ValidationBeforeWrites ==
    [][ (~avatarExists \/ ~hasCairo \/ ~hasPillow) =>
            /\ pc' = "exited"
            /\ exitCode' = 1
            /\ disk' = disk
            /\ dirExists' = dirExists ]_vars

C3_Witness ==
    /\ pc = "exited" /\ exitCode = 1 /\ runs > 0
    /\ avatarExists /\ hasCairo /\ ~hasPillow
    /\ ~extLight /\ skip

\* C4 as stated: after a run with --skip-favicon-svg favicon.svg is absent
\* from the output directory and not counted, after any sequence of runs.
C4_SkipMeansAbsent ==
    (Succeeded /\ skip) =>
        /\ disk[SvgName] = Absent
        /\ reported = Len(Pairs) + 1
        /\ RasterOutputsOn(disk)

\* C4 amended: a run with --skip-favicon-svg never touches favicon.svg (it
\* neither writes nor removes it) and, when it exits 0, reports one file
\* less, favicon.svg not being in the generated list, with the PNGs and
\* favicon.ico as any successful run leaves them.
C4_SkipLeavesFaviconSvg ==
    [][ skip' =>
            /\ disk'[SvgName] = disk[SvgName]
            /\ (pc' = "exited" /\ exitCode' = 0) =>
                   /\ reported' = Len(Pairs) + 1
                   /\ SvgName \notin Range(generated')
                   /\ RasterOutputsOn(disk') ]_vars

C4_Witness ==
    /\ Succeeded /\ skip
    /\ reported = Len(Pairs) + 1
    /\ disk[SvgName] # Absent

\* C5: when a step of main raises, the run ends there with a non-zero status,
\* no later step runs, the files written before stay as they are, and (in a
\* fresh directory) the files present are a prefix of the fixed step order.
C5_FailureAborts ==
    [][ /\ (err = "none" /\ err' # "none") =>
               /\ pc' = "exited"
               /\ exitCode' = 1
               /\ generated' = generated
               /\ \A n \in Range(generated) : disk'[n] = disk[n]
        /\ (pc = "exited" /\ err # "none") => runs' = runs + 1
        /\ (pc' = "exited" /\ err' # "none") =>
               /\ exitCode' # 0
               /\ generated' = SubSeq(StepOrder, 1, Len(generated'))
               /\ runs' = 1 => Present' = PrefixSet(Len(generated')) ]_vars

C5_Witness ==
    /\ pc = "exited" /\ exitCode = 1 /\ err = "RenderFailure"
    /\ runs = 1
    /\ Len(generated) = Len(Pairs)
    /\ disk[IcoName] = Absent

\* C6: a successful run leaves, for every (prefix, size) of the table,
\* exactly one PNG <prefix>-<size>x<size>.png rendered from the avatar with
\* width = height = size, and no PNG for a pair outside the table.
C6_PngPerTableEntry ==
    Succeeded =>
        /\ \A e \in 1..Len(DEFAULT_SPECS) :
              \A k \in 1..Len(DEFAULT_SPECS[e].sizes) :
                 LET size == DEFAULT_SPECS[e].sizes[k]
                     name == FileName(DEFAULT_SPECS[e].prefix, size)
                 IN  /\ disk[name] = [kind |-> "png", src |-> AvatarPath,
                                      sizes |-> <<size, size>>, text |-> <<>>]
                     /\ Cardinality({i \in 1..Len(generated) : generated[i] = name}) = 1
        /\ {n \in DOMAIN disk : disk[n].kind = "png"} = TablePngNames

C6_Witness ==
    /\ Succeeded
    /\ disk["apple-icon-180x180.png"].sizes = <<180, 180>>
    /\ disk["ms-icon-150x150.png"].src = AvatarPath

\* C7: with the avatar and the packages available, the extended SVGs change
\* nothing but the warning: a run that is not stopped by a failing step
\* exits 0 with the full output set, and the warning is printed exactly
\* when at least one of the two is missing.
C7_ExtendedOnlyWarn ==
    (avatarExists /\ hasCairo /\ hasPillow /\ runs > 0) =>
        /\ warned = (~extLight \/ ~extDark)
        /\ (pc = "exited" /\ err = "none") =>
               /\ exitCode = 0
               /\ RasterOutputsOn(disk)
               /\ ~skip => disk[SvgName].kind = "svg"
               /\ reported = Len(Pairs) + (IF skip THEN 1 ELSE 2)

C7_Witness ==
    /\ Succeeded /\ warned
    /\ extLight /\ ~extDark
    /\ Len(generated) = Len(Pairs) + 2

\* C9: within a run no output path is written twice: the names of the steps
\* are pairwise distinct, and the reported count is the number of distinct
\* files written.
C9_DistinctOutputs ==
    /\ \A i, j \in 1..Len(generated) : i # j => generated[i] # generated[j]
    /\ Cardinality(Range(StepOrder)) = Len(Pairs) + 2
    /\ Succeeded =>
          /\ reported = Cardinality(Range(generated))
          /\ Range(generated) \subseteq Present
          /\ runs = 1 => reported = Cardinality(Present)

C9_Witness ==
    /\ Succeeded /\ ~skip /\ runs = 1
    /\ reported = Len(Pairs) + 2
    /\ Cardinality(Present) = Len(Pairs) + 2

\* C8: the output of write_favicon_svg differs from the source only inside
\* the first root <svg ...> opening tag; without such a tag it is a copy.
C8_OnlyRootTagChanges ==
    FaviconSvgReturned =>
        LET src == avatarDoc
            out == disk[SvgName].text
            m == RootTag(src)
            after == Len(src) - m[2]
        IN  IF m[1] = 0 THEN out = src
            ELSE /\ Len(out) >= m[1] - 1 + after
                 /\ SubSeq(out, 1, m[1] - 1) = SubSeq(src, 1, m[1] - 1)
                 /\ SubSeq(out, Len(out) - after + 1, Len(out))
                        = SubSeq(src, m[2] + 1, Len(src))

\* C10: each generating operation whose conversion or read does not raise
\* leaves the parent directory of its destination existing and the
\* destination written, also when the directory did not exist before.
C10_ParentDirEnsured ==
    (call.op # "none" /\ err \notin {"RenderFailure", "ReadFailure"}) =>
        /\ dirExists
        /\ disk[call.dest] # Absent

====
